---- MODULE Spec2Model ----
(***************************************************************************)
(* The three-stage prompt chain of streamlitapp.py: run_gemini_stage and   *)
(* run_financial_analysis_chain, with the text conversions the chain makes *)
(* between the stages (json.loads, json.dumps(indent=2), re.search,        *)
(* str.format).  Texts are TLA+ strings, read character by character.      *)
(***************************************************************************)
EXTENDS Integers, Sequences, FiniteSets, TLC

(***************************************************************************)
(* Text helpers.                                                           *)
(***************************************************************************)

\* s[i-1:i] of Python: the character at 1-based position i, "" past the end.
At(s, i) == IF i >= 1 /\ i <= Len(s) THEN SubSeq(s, i, i) ELSE ""

\* s.startswith(m, i-1)
StartsAt(s, i, m) ==
    /\ i >= 1
    /\ i + Len(m) - 1 <= Len(s)
    /\ SubSeq(s, i, i + Len(m) - 1) = m

\* m in s
Contains(s, m) == \E i \in 1..(Len(s) + 1) : StartsAt(s, i, m)

SetMin(S) == CHOOSE x \in S : \A y \in S : x <= y
SetMax(S) == CHOOSE x \in S : \A y \in S : x >= y

RECURSIVE Spaces(_)
Spaces(n) == IF n <= 0 THEN "" ELSE " " \o Spaces(n - 1)

\* "0" * n, for the n <= 20 that float.__repr__ needs
ZeroRun == "00000000000000000000"
Zeros(n) == IF n <= 0 THEN "" ELSE SubSeq(ZeroRun, 1, n)

DecDigits == "0123456789"
IsDigit(c) == c \in {"0", "1", "2", "3", "4", "5", "6", "7", "8", "9"}
DigitVal(c) == CHOOSE d \in 0..9 : SubSeq(DecDigits, d + 1, d + 1) = c

\* str(n) for an integer n
RECURSIVE NatRepr(_)
NatRepr(n) == IF n < 10 THEN At(DecDigits, n + 1)
              ELSE NatRepr(n \div 10) \o At(DecDigits, (n % 10) + 1)
IntRepr(n) == IF n < 0 THEN "-" \o NatRepr(0 - n) ELSE NatRepr(n)

\* int(d) for a string of decimal digits
RECURSIVE DigitsVal(_, _)
DigitsVal(d, acc) == IF d = "" THEN acc
                     ELSE DigitsVal(Tail(d), acc * 10 + DigitVal(Head(d)))

(***************************************************************************)
(* Python values, as json.loads builds them.  Every value is a record of   *)
(* the same shape; t is the Python type.                                   *)
(*   int    n          float  (-1)^neg * n * 10^e, n not a multiple of 10  *)
(*   str    s          list   items: the elements                          *)
(*   dict   items: the [k, v] pairs in insertion order, keys distinct      *)
(*   True, False, None, nan, inf, -inf: t alone                            *)
(* A float is kept as the decimal its text denotes, which is the double    *)
(* Python keeps as long as the text has few digits: the texts of the model *)
(* hold numbers of at most nine significant digits and exponents that stay *)
(* far from the limits of a double.                                        *)
(***************************************************************************)
PyVal(t, neg, n, e, s, items) ==
    [t |-> t, neg |-> neg, n |-> n, e |-> e, s |-> s, items |-> items]
PyConst(t)   == PyVal(t, FALSE, 0, 0, "", <<>>)
PyInt(n)     == PyVal("int", FALSE, n, 0, "", <<>>)
PyStr(s)     == PyVal("str", FALSE, 0, 0, s, <<>>)
PyList(xs)   == PyVal("list", FALSE, 0, 0, "", xs)
PyDict(kvs)  == PyVal("dict", FALSE, 0, 0, "", kvs)

\* float(text) of a JSON number: the decimal value, trailing zeros dropped
RECURSIVE PyFloat(_, _, _)
PyFloat(neg, n, e) ==
    IF n = 0 THEN PyVal("float", neg, 0, 0, "", <<>>)
    ELSE IF n % 10 = 0 THEN PyFloat(neg, n \div 10, e + 1)
    ELSE PyVal("float", neg, n, e, "", <<>>)

\* dict(pairs): a repeated key keeps its first position and takes the last value
FirstAt(pairs) == {i \in 1..Len(pairs) : \A j \in 1..(i - 1) : pairs[j].k # pairs[i].k}
LastOf(pairs, key) == SetMax({j \in 1..Len(pairs) : pairs[j].k = key})
NthOf(S, n) == CHOOSE i \in S : Cardinality({j \in S : j < i}) = n - 1
DictEntry(pairs, i) == [k |-> pairs[i].k, v |-> pairs[LastOf(pairs, pairs[i].k)].v]
DictFrom(pairs, firsts) ==
    [n \in 1..Cardinality(firsts) |-> DictEntry(pairs, NthOf(firsts, n))]
DictOf(pairs) == DictFrom(pairs, FirstAt(pairs))

(***************************************************************************)
(* json.loads(s): the standard decoder (strict, no hooks).  A scan returns *)
(* [ok, v, end]: whether it matched, the value, and the position after it. *)
(***************************************************************************)
JsonWhitespace == {" ", "\t", "\n", "\r"}
\* characters a strict JSON string may not hold unescaped (below U+0020)
ControlChars == {"\t", "\n", "\r", "\f"}

\* The printable ASCII characters in code point order: U+0020 .. U+005F and
\* U+0061 .. U+007E (a TLA+ string cannot hold U+0060, the grave accent).
AsciiLow  == " !\"#$%&'()*+,-./0123456789:;<=>?@ABCDEFGHIJKLMNOPQRSTUVWXYZ[\\]^_"
AsciiHigh == "abcdefghijklmnopqrstuvwxyz{|}~"
\* chr(n) for the code points the model's texts use (printable ASCII, tab, new
\* line, form feed, carriage return); the empty text for any other, which the
\* texts of the model never escape
Chr(n) == IF n >= 32 /\ n <= 95 THEN At(AsciiLow, n - 31)
          ELSE IF n >= 97 /\ n <= 126 THEN At(AsciiHigh, n - 96)
          ELSE IF n = 9 THEN "\t"
          ELSE IF n = 10 THEN "\n"
          ELSE IF n = 12 THEN "\f"
          ELSE IF n = 13 THEN "\r"
          ELSE ""

HexDigits == "0123456789abcdef"
HexUpper  == "0123456789ABCDEF"
IsHex(c) == \E d \in 1..16 : c \in {SubSeq(HexDigits, d, d), SubSeq(HexUpper, d, d)}
HexVal(c) == CHOOSE d \in 0..15 :
                 c \in {SubSeq(HexDigits, d + 1, d + 1), SubSeq(HexUpper, d + 1, d + 1)}
\* int(s[i+1:i+5], 16) of a \uXXXX escape whose backslash is at i
Hex4(s, i) == HexVal(At(s, i + 2)) * 4096 + HexVal(At(s, i + 3)) * 256
                  + HexVal(At(s, i + 4)) * 16 + HexVal(At(s, i + 5))

ScanFail == [ok |-> FALSE, v |-> PyConst("None"), end |-> 0]
ScanOk(v, end) == [ok |-> TRUE, v |-> v, end |-> end]

\* WHITESPACE.match(s, i).end(): the first position from i that holds no whitespace
SkipWs(s, i) == SetMin({k \in i..(Len(s) + 1) : At(s, k) \notin JsonWhitespace})

\* the end of the digits \d* from i
DigitsEnd(s, i) == SetMin({k \in i..(Len(s) + 1) : ~IsDigit(At(s, k))})

\* The escapes of a JSON string (BACKSLASH of json.decoder).  \b is left out:
\* a TLA+ string cannot hold U+0008, and no text of the model uses it.
Backslash(c) == IF c = "n" THEN "\n"
                ELSE IF c = "t" THEN "\t"
                ELSE IF c = "r" THEN "\r"
                ELSE IF c = "f" THEN "\f"
                ELSE IF c \in {"\"", "\\", "/"} THEN c
                ELSE ""

\* py_scanstring(s, i, strict=True), i just after the opening quote.  Its loop
\* takes a chunk by STRINGCHUNK = (.*?)(["\\\x00-\x1f]): plain characters up to
\* a terminator, which is the closing quote, a backslash or a control character.
ChunkEnd(s, i) ==
    SetMin({k \in i..(Len(s) + 1) : At(s, k) \in ({"", "\"", "\\"} \cup ControlChars)})

RECURSIVE ScanString(_, _, _)
\* an escape: ch is the character it stands for ("" if none), next what follows it
ScanEscape(s, next, acc, ch) ==
    IF ch = "" THEN ScanFail ELSE ScanString(s, next, acc \o ch)
\* acc holds the chunk; j is the position of its terminator
ScanChunk(s, acc, j) ==
    IF At(s, j) = "\"" THEN ScanOk(PyStr(acc), j + 1)
    ELSE IF At(s, j) # "\\" THEN ScanFail
    ELSE IF At(s, j + 1) = "u"
         THEN IF \A k \in 2..5 : IsHex(At(s, j + k))
              THEN ScanEscape(s, j + 6, acc, Chr(Hex4(s, j)))
              ELSE ScanFail
    ELSE IF At(s, j + 1) = "" THEN ScanFail
    ELSE ScanEscape(s, j + 2, acc, Backslash(At(s, j + 1)))
ScanString(s, i, acc) ==
    ScanChunk(s, acc \o SubSeq(s, i, ChunkEnd(s, i) - 1), ChunkEnd(s, i))

\* NUMBER_RE.match(s, i): (-?(?:0|[1-9]\d*))(\.\d+)?([eE][-+]?\d+)?
\* then int(integer) when there is neither fraction nor exponent, else float.
\* p: where the digits start; intEnd, fracEnd, expEnd: where each group ends;
\* ed: where the exponent's digits start.
NumberValue(s, neg, p, intEnd, fracEnd, ed, expEnd) ==
    IF fracEnd = intEnd /\ expEnd = fracEnd
    THEN ScanOk(PyInt((IF neg THEN -1 ELSE 1) * DigitsVal(SubSeq(s, p, intEnd - 1), 0)),
                intEnd)
    ELSE ScanOk(PyFloat(neg,
                    DigitsVal(SubSeq(s, p, intEnd - 1)
                                  \o (IF fracEnd > intEnd
                                      THEN SubSeq(s, intEnd + 1, fracEnd - 1) ELSE ""), 0),
                    (IF expEnd > fracEnd
                     THEN (IF At(s, fracEnd + 1) = "-" THEN -1 ELSE 1)
                              * DigitsVal(SubSeq(s, ed, expEnd - 1), 0)
                     ELSE 0)
                    - (IF fracEnd > intEnd THEN fracEnd - intEnd - 1 ELSE 0)),
                expEnd)
NumberExp(s, neg, p, intEnd, fracEnd, ed) ==
    NumberValue(s, neg, p, intEnd, fracEnd, ed,
                IF At(s, fracEnd) \in {"e", "E"} /\ IsDigit(At(s, ed))
                THEN DigitsEnd(s, ed) ELSE fracEnd)
NumberFrac(s, neg, p, intEnd, fracEnd) ==
    NumberExp(s, neg, p, intEnd, fracEnd,
              IF At(s, fracEnd + 1) \in {"+", "-"} THEN fracEnd + 2 ELSE fracEnd + 1)
NumberInt(s, neg, p, intEnd) ==
    IF intEnd = p THEN ScanFail
    ELSE NumberFrac(s, neg, p, intEnd,
                    IF At(s, intEnd) = "." /\ IsDigit(At(s, intEnd + 1))
                    THEN DigitsEnd(s, intEnd + 1) ELSE intEnd)
NumberSign(s, neg, p) ==
    NumberInt(s, neg, p, IF At(s, p) = "0" THEN p + 1 ELSE DigitsEnd(s, p))
MatchNumber(s, i) ==
    NumberSign(s, At(s, i) = "-", IF At(s, i) = "-" THEN i + 1 ELSE i)

\* py_make_scanner's _scan_once, with JSONObject and JSONArray
RECURSIVE ScanOnce(_, _), ObjectLoop(_, _, _), ArrayLoop(_, _, _)

\* what _scan_once tries after null, true and false: a number, then NaN,
\* Infinity and -Infinity
NumberOrConstant(s, i, number) ==
    IF number.ok THEN number
    ELSE IF StartsAt(s, i, "NaN") THEN ScanOk(PyConst("nan"), i + 3)
    ELSE IF StartsAt(s, i, "Infinity") THEN ScanOk(PyConst("inf"), i + 8)
    ELSE IF StartsAt(s, i, "-Infinity") THEN ScanOk(PyConst("-inf"), i + 9)
    ELSE ScanFail

\* The state of the item loops of JSONObject and JSONArray: whether the loop
\* has ended, whether it ended without an error, the position it is at, and
\* the items so far.
LoopAt(i, items)   == [done |-> FALSE, ok |-> TRUE, i |-> i, items |-> items]
LoopEnd(i, items)  == [done |-> TRUE, ok |-> TRUE, i |-> i, items |-> items]
LoopFail           == [done |-> TRUE, ok |-> FALSE, i |-> 0, items |-> <<>>]
\* no loop over s from i takes more turns than there are commas, plus one
MaxTurns(s, i) == Cardinality({k \in i..Len(s) : At(s, k) = ","}) + 1

\* JSONObject, j at the first character after "{" that is not whitespace
ObjectEnd(st) ==
    IF st.ok /\ st.done THEN ScanOk(PyDict(DictOf(st.items)), st.i) ELSE ScanFail
ObjectFrom(s, j) ==
    IF At(s, j) = "}" THEN ScanOk(PyDict(<<>>), j + 1)
    ELSE IF At(s, j) # "\"" THEN ScanFail
    ELSE ObjectEnd(ObjectLoop(s, LoopAt(j + 1, <<>>), MaxTurns(s, j)))

\* JSONArray, j at the first character after "[" that is not whitespace
ArrayEnd(st) ==
    IF st.ok /\ st.done THEN ScanOk(PyList(st.items), st.i) ELSE ScanFail
ArrayFrom(s, j) ==
    IF At(s, j) = "]" THEN ScanOk(PyList(<<>>), j + 1)
    ELSE ArrayEnd(ArrayLoop(s, LoopAt(j, <<>>), MaxTurns(s, j)))

ScanOnce(s, i) ==
    IF At(s, i) = "" THEN ScanFail
    ELSE IF At(s, i) = "\"" THEN ScanString(s, i + 1, "")
    ELSE IF At(s, i) = "{" THEN ObjectFrom(s, SkipWs(s, i + 1))
    ELSE IF At(s, i) = "[" THEN ArrayFrom(s, SkipWs(s, i + 1))
    ELSE IF StartsAt(s, i, "null") THEN ScanOk(PyConst("None"), i + 4)
    ELSE IF StartsAt(s, i, "true") THEN ScanOk(PyConst("True"), i + 4)
    ELSE IF StartsAt(s, i, "false") THEN ScanOk(PyConst("False"), i + 5)
    ELSE NumberOrConstant(s, i, MatchNumber(s, i))

\* One pair of an object, i just after the opening quote of its key:
\* [ok, k, v, end], end at the first character after the value that is not
\* whitespace.
PairFail == [ok |-> FALSE, k |-> "", v |-> PyConst("None"), end |-> 0]
PairValue(s, key, val) ==
    IF ~val.ok THEN PairFail
    ELSE [ok |-> TRUE, k |-> key.v.s, v |-> val.v, end |-> SkipWs(s, val.end)]
PairColon(s, key, colon) ==
    IF At(s, colon) # ":" THEN PairFail
    ELSE PairValue(s, key, ScanOnce(s, SkipWs(s, colon + 1)))
PairKey(s, key) ==
    IF ~key.ok THEN PairFail ELSE PairColon(s, key, SkipWs(s, key.end))
ScanPair(s, i) == PairKey(s, ScanString(s, i, ""))

\* one turn of the loop of JSONObject, st.i just after the opening quote of a
\* key: after the pair, "}" ends the object and "," must be followed by a key
ObjectNext(s, st, pair) ==
    IF ~pair.ok THEN LoopFail
    ELSE IF At(s, pair.end) = "}"
         THEN LoopEnd(pair.end + 1, Append(st.items, [k |-> pair.k, v |-> pair.v]))
    ELSE IF At(s, pair.end) # "," THEN LoopFail
    ELSE IF At(s, SkipWs(s, pair.end + 1)) # "\"" THEN LoopFail
    ELSE LoopAt(SkipWs(s, pair.end + 1) + 1,
                Append(st.items, [k |-> pair.k, v |-> pair.v]))
ObjectTurn(s, st) == ObjectNext(s, st, ScanPair(s, st.i))

\* one turn of the loop of JSONArray, st.i at the start of an element: after
\* the element, "]" ends the array and "," must be followed by a value
ArrayNext(s, st, val) ==
    IF ~val.ok THEN LoopFail
    ELSE IF At(s, SkipWs(s, val.end)) = "]"
         THEN LoopEnd(SkipWs(s, val.end) + 1, Append(st.items, val.v))
    ELSE IF At(s, SkipWs(s, val.end)) # "," THEN LoopFail
    ELSE LoopAt(SkipWs(s, SkipWs(s, val.end) + 1), Append(st.items, val.v))
ArrayTurn(s, st) == ArrayNext(s, st, ScanOnce(s, st.i))

\* up to n turns of a loop from st, the first half of them and then the rest
ObjectLoop(s, st, n) ==
    IF st.done \/ n <= 0 THEN st
    ELSE IF n = 1 THEN ObjectTurn(s, st)
    ELSE ObjectLoop(s, ObjectLoop(s, st, n \div 2), n - (n \div 2))
ArrayLoop(s, st, n) ==
    IF st.done \/ n <= 0 THEN st
    ELSE IF n = 1 THEN ArrayTurn(s, st)
    ELSE ArrayLoop(s, ArrayLoop(s, st, n \div 2), n - (n \div 2))

\* JSONDecoder.decode: one value between optional whitespace, nothing after it;
\* ok = FALSE stands for json.JSONDecodeError
DecodeEnd(s, r) ==
    IF r.ok /\ SkipWs(s, r.end) = Len(s) + 1 THEN r ELSE ScanFail
JsonLoads(s) == DecodeEnd(s, ScanOnce(s, SkipWs(s, 1)))

(***************************************************************************)
(* json.dumps(obj, indent=2): ensure_ascii, item separator "," and a new   *)
(* line, key separator ": ", floats by float.__repr__.                     *)
(***************************************************************************)
\* EscapeChar without the escapes: what the encoder would write if it copied
\* every character as it is.  C8 is checked against it.
EscapeCharNone(c) == c

\* ESCAPE_DCT of json.encoder, for the characters of the model's texts
EscapeChar(c) == IF c = "\"" THEN "\\\""
                 ELSE IF c = "\\" THEN "\\\\"
                 ELSE IF c = "\n" THEN "\\n"
                 ELSE IF c = "\r" THEN "\\r"
                 ELSE IF c = "\t" THEN "\\t"
                 ELSE IF c = "\f" THEN "\\f"
                 ELSE c

\* ESCAPE_ASCII.sub(replace, s): every character that needs it is escaped
NeedsEscape == {"\"", "\\", "\n", "\r", "\t", "\f"}
FirstEscape(s) == SetMin({k \in 1..(Len(s) + 1) : At(s, k) \in (NeedsEscape \cup {""})})
RECURSIVE EscapeAll(_)
EscapeFrom(s, j) ==
    IF j > Len(s) THEN s
    ELSE SubSeq(s, 1, j - 1) \o EscapeChar(At(s, j))
             \o EscapeAll(SubSeq(s, j + 1, Len(s)))
EscapeAll(s) == EscapeFrom(s, FirstEscape(s))

\* py_encode_basestring_ascii
EncodeString(s) == "\"" \o EscapeAll(s) \o "\""

\* float.__repr__ of a finite float: the shortest digits that round-trip, in
\* fixed notation when -4 < decpt <= 16 and in exponent notation otherwise
FormatFloat(sign, digits, nd, decpt) ==
    IF decpt > -4 /\ decpt <= 16
    THEN IF decpt <= 0 THEN sign \o "0." \o Zeros(0 - decpt) \o digits
         ELSE IF decpt >= nd THEN sign \o digits \o Zeros(decpt - nd) \o ".0"
         ELSE sign \o SubSeq(digits, 1, decpt) \o "." \o SubSeq(digits, decpt + 1, nd)
    ELSE sign \o SubSeq(digits, 1, 1)
              \o (IF nd > 1 THEN "." \o SubSeq(digits, 2, nd) ELSE "")
              \o "e" \o (IF decpt - 1 < 0 THEN "-" ELSE "+")
              \o (IF decpt - 1 < 10 /\ 1 - decpt < 10 THEN "0" ELSE "")
              \o NatRepr(IF decpt - 1 < 0 THEN 1 - decpt ELSE decpt - 1)
FloatDigits(v, digits) ==
    FormatFloat(IF v.neg THEN "-" ELSE "", digits, Len(digits), Len(digits) + v.e)
FloatRepr(v) == FloatDigits(v, NatRepr(v.n))

IndentWidth == 2
NewlineIndent(level) == "\n" \o Spaces(IndentWidth * level)

\* _make_iterencode's _iterencode, _iterencode_list and _iterencode_dict
RECURSIVE Encode(_, _), EncodeList(_, _, _, _), EncodeDict(_, _, _, _)
Encode(v, level) ==
    IF v.t = "str" THEN EncodeString(v.s)
    ELSE IF v.t = "None" THEN "null"
    ELSE IF v.t = "True" THEN "true"
    ELSE IF v.t = "False" THEN "false"
    ELSE IF v.t = "int" THEN IntRepr(v.n)
    ELSE IF v.t = "nan" THEN "NaN"
    ELSE IF v.t = "inf" THEN "Infinity"
    ELSE IF v.t = "-inf" THEN "-Infinity"
    ELSE IF v.t = "float" THEN FloatRepr(v)
    ELSE IF v.t = "list" THEN
        IF v.items = <<>> THEN "[]"
        ELSE "[" \o NewlineIndent(level + 1) \o EncodeList(v.items, level + 1, 1, Len(v.items))
                 \o NewlineIndent(level) \o "]"
    ELSE
        IF v.items = <<>> THEN "{}"
        ELSE "{" \o NewlineIndent(level + 1) \o EncodeDict(v.items, level + 1, 1, Len(v.items))
                 \o NewlineIndent(level) \o "}"

\* the items lo..hi of a list, joined by the item separator
EncodeList(items, level, lo, hi) ==
    IF lo = hi THEN Encode(items[lo], level)
    ELSE EncodeList(items, level, lo, (lo + hi) \div 2)
             \o "," \o NewlineIndent(level)
             \o EncodeList(items, level, ((lo + hi) \div 2) + 1, hi)

\* the pairs lo..hi of a dict, joined by the item separator
EncodeDict(pairs, level, lo, hi) ==
    IF lo = hi
    THEN EncodeString(pairs[lo].k) \o ": " \o Encode(pairs[lo].v, level)
    ELSE EncodeDict(pairs, level, lo, (lo + hi) \div 2)
             \o "," \o NewlineIndent(level)
             \o EncodeDict(pairs, level, ((lo + hi) \div 2) + 1, hi)

JsonDumps(v) == Encode(v, 0)

(***************************************************************************)
(* re.search(r'(<Chain_of_Thought>[\s\S]*<\/Intermediate_Analysis>)', s,   *)
(* re.DOTALL) and the choice of the intermediate analysis.                 *)
(***************************************************************************)
OpenMarker  == "<Chain_of_Thought>"
CloseMarker == "</Intermediate_Analysis>"

\* the positions at which the markers start
OpenStarts(s)  == {i \in 1..Len(s) : StartsAt(s, i, OpenMarker)}
CloseStarts(s) == {j \in 1..Len(s) : StartsAt(s, j, CloseMarker)}

\* re.search: the leftmost position at which the pattern matches; there the
\* greedy [\s\S]* runs to the end of the text and backs off to the last close
\* marker.  [found, first, last]: the span of group 1.
SearchFrom(starts, closes) ==
    IF starts = {} THEN [found |-> FALSE, first |-> 0, last |-> 0]
    ELSE [found |-> TRUE, first |-> SetMin(starts),
          last |-> SetMax(closes) + Len(CloseMarker) - 1]
SearchIn(opens, closes) ==
    SearchFrom({i \in opens : \E j \in closes : j >= i + Len(OpenMarker)}, closes)
ReSearch(s) == SearchIn(OpenStarts(s), CloseStarts(s))

\* GroupOrAll with a group that leaves the two markers out, as a pattern
\* with the parentheses around [\s\S]* alone would.  C3 is checked against it.
GroupInner(stage2_output, match) ==
    IF match.found
    THEN SubSeq(stage2_output, match.first + Len(OpenMarker), match.last - Len(CloseMarker))
    ELSE stage2_output

\* match.group(1) if match else stage2_output
GroupOrAll(stage2_output, match) ==
    IF match.found THEN SubSeq(stage2_output, match.first, match.last)
    ELSE stage2_output
IntermediateAnalysis(stage2_output) == GroupOrAll(stage2_output, ReSearch(stage2_output))

(***************************************************************************)
(* The prompt templates and str.format.                                    *)
(***************************************************************************)
STAGE_1_PROMPT ==
       "\n"
    \o "You are a highly meticulous Financial Data Analyst. Your sole function is to analyze the provided financial report (PDF, TXT, or MD) and extract the exact values for the specified metrics.\n"
    \o "\n"
    \o "CRITICAL INSTRUCTION: Analyze the entire document, including tables, figures, and narrative text, to locate the requested data points. Provide the values as pure numbers (e.g., 550.5 for $550.5 Million, 0.40 for 40%).\n"
    \o "\n"
    \o "Your output MUST be a JSON object that strictly adheres to the provided schema. DO NOT add any introductory or explanatory text. If a metric is not found, use 0 for numbers or an empty string for text.\n"

STAGE_2_PROMPT_TEMPLATE ==
       "\n"
    \o "<System_Prompt>\n"
    \o "You are a Senior Financial Strategist. Your task is to perform a detailed financial analysis based solely on the extracted structured data provided in the <Extracted_Data_JSON> tag. Your analysis must follow a structured, step-by-step reasoning process (Chain-of-Thought) to ensure numerical accuracy before drawing conclusions.\n"
    \o "</System_Prompt>\n"
    \o "\n"
    \o "<Extracted_Data_JSON>\n"
    \o "{extracted_data_placeholder}\n"
    \o "</Extracted_Data_JSON>\n"
    \o "\n"
    \o "<Instructions>\n"
    \o "First, complete the required reasoning steps in the <Chain_of_Thought> section. Then, use the output of that reasoning to fill the <Intermediate_Analysis> section.\n"
    \o "\n"
    \o "<Chain_of_Thought>\n"
    \o "1. **Growth Calculation:** Calculate the Quarter-over-Quarter Revenue Growth Rate (Formula: (Current Revenue - Previous Revenue) / Previous Revenue * 100%). Use the numbers from the JSON.\n"
    \o "2. **Profitability Check:** Calculate the Operating Margin (Net Income / Revenue).\n"
    \o "3. **Liquidity Assessment:** Comment on the immediate liquidity trend by comparing Cash vs. Total Debt.\n"
    \o "4. **Synthesize Work:** Cross-reference the calculated financial trends (growth/margin) with the Management Summary and Risk Factors. What single, major theme connects the financials to the management commentary?\n"
    \o "</Chain_of_Thought>\n"
    \o "\n"
    \o "<Intermediate_Analysis>\n"
    \o "1. **Revenue & Growth:** [Summary of growth calculation and trend.]\n"
    \o "2. **Profitability:** [Summary of operating margin and what Net Income trend reveals.]\n"
    \o "3. **Risk Synthesis:** [Detailed note on how the calculated financial health is impacted by the identified risk factors.]\n"
    \o "4. **Work Done Assessment (The \"Why\"):** [Based on the MD&A summary and financial trends, provide a single paragraph assessing the effectiveness of the *work done* by the company during the period.]\n"
    \o "</Intermediate_Analysis>\n"

STAGE_3_PROMPT_TEMPLATE ==
       "\n"
    \o "<System_Prompt>\n"
    \o "You are the CEO's Chief of Staff. Your final task is to condense the entire analysis (provided in the <Full_Analysis_Data> tag) into a three-part, executive-ready final report.\n"
    \o "Tone: Professional, direct, and forward-looking.\n"
    \o "Output: The final response MUST use Markdown headings (#) and bullet points. DO NOT use any XML tags in your final output.\n"
    \o "</System_Prompt>\n"
    \o "\n"
    \o "<Full_Analysis_Data>\n"
    \o "{full_analysis_data_placeholder}\n"
    \o "</Full_Analysis_Data>\n"
    \o "\n"
    \o "**FINAL REPORT SECTIONS:**\n"
    \o "\n"
    \o "# Executive Summary\n"
    \o "**Max 3 Sentences.** Summarize the period's overall performance, highlighting the main success and the primary challenge/risk.\n"
    \o "\n"
    \o "# Key Insights and Work Assessment\n"
    \o "Use bullet points to present three distinct insights. One must specifically assess the effectiveness of the *work done* by the company during the period.\n"
    \o "\n"
    \o "# Strategic Suggestions for Next Period\n"
    \o "Use bullet points to provide three distinct, actionable, and measurable suggestions for the management team, logically derived from the insights.\n"

\* template.format(name=value): each replacement field {name} of the template
\* replaced by value (the templates hold no other brace)
RECURSIVE Format(_, _, _)
FormatAt(template, name, value, at) ==
    IF at = {} THEN template
    ELSE SubSeq(template, 1, SetMin(at) - 1) \o value
             \o Format(SubSeq(template, SetMin(at) + Len(name) + 2, Len(template)),
                       name, value)
Format(template, name, value) ==
    FormatAt(template, name, value,
             {i \in 1..Len(template) : StartsAt(template, i, "{" \o name \o "}")})

\* FullAnalysisData without the blank line between the two artifacts.  C10 is
\* checked against it.
FullAnalysisDataNoBlank(extracted_data_json, intermediate_analysis) ==
    "STAGE 1 DATA:\n" \o extracted_data_json
        \o "\nSTAGE 2 ANALYSIS:\n" \o intermediate_analysis

\* f"STAGE 1 DATA:\n{extracted_data_json}\n\nSTAGE 2 ANALYSIS:\n{intermediate_analysis}"
FullAnalysisData(extracted_data_json, intermediate_analysis) ==
    "STAGE 1 DATA:\n" \o extracted_data_json
        \o "\n\nSTAGE 2 ANALYSIS:\n" \o intermediate_analysis

Stage2FullPrompt(extracted_data_json) ==
    Format(STAGE_2_PROMPT_TEMPLATE, "extracted_data_placeholder", extracted_data_json)

Stage3FullPrompt(extracted_data_json, intermediate_analysis) ==
    Format(STAGE_3_PROMPT_TEMPLATE, "full_analysis_data_placeholder",
           FullAnalysisData(extracted_data_json, intermediate_analysis))

(***************************************************************************)
(* Optional texts (a str or None), request parts, and run_gemini_stage.    *)
(***************************************************************************)
None == [none |-> TRUE, text |-> ""]
Some(s) == [none |-> FALSE, text |-> s]
\* Truthy as "x is not None" would have it: the empty text passes.  C1 is
\* checked against it.
TruthyNotNone(x) == ~x.none

\* bool(x) of a str or None: "if not x" fails for None and for the empty text
Truthy(x) == ~x.none /\ x.text # ""

TextPart(text) == [kind |-> "text", text |-> text, data |-> "", mime_type |-> ""]
\* types.Part.from_bytes(data=..., mime_type=...)
BytesPart(data, mime_type) ==
    [kind |-> "bytes", text |-> "", data |-> data, mime_type |-> mime_type]

\* the contents argument: a list of parts, or one part
ListOf(parts) == [is_list |-> TRUE, parts |-> parts]
OnePart(part) == [is_list |-> FALSE, parts |-> <<part>>]

\* the parts run_gemini_stage sends: the contents, then the prompt as text
Parts(prompt_template, contents) ==
    (IF contents.is_list /\ contents.parts # <<>> THEN contents.parts
     ELSE IF ~contents.is_list THEN contents.parts
     ELSE <<>>) \o <<TextPart(prompt_template)>>

\* What client.models.generate_content and response.text do: raise, or give a
\* text or None.
Raises(err)  == [raised |-> TRUE, err |-> err, text |-> None]
Returns(txt) == [raised |-> FALSE, err |-> "", text |-> txt]

\* A message of the page: the st.* function and the text given to it.  The
\* texts of the model are ASCII; the one character of the source's messages
\* outside ASCII, the check mark U+2705 of line 213, is written as its escape
\* \u2705, the way json.dumps writes it.
UiMsg(fn, text) == [fn |-> fn, text |-> text]

\* RunGeminiStage without the except clause: the provider's error leaves it.
\* C5 is checked against it.
RunGeminiStageUncaught(outcome) ==
    IF outcome.raised
    THEN [ret |-> None, escaped |-> TRUE, calls |-> 1, ui |-> <<>>]
    ELSE [ret |-> outcome.text, escaped |-> FALSE, calls |-> 1, ui |-> <<>>]

\* The try/except of run_gemini_stage on one outcome of the provider call:
\* ret is what it returns, escaped whether the error leaves it as an exception,
\* calls how many provider calls it made, ui what it shows.  "except Exception"
\* takes every error of the call and of response.text; st.exception is given
\* the text, which it shows.
RunGeminiStage(outcome) ==
    IF outcome.raised
    THEN [ret |-> None, escaped |-> FALSE, calls |-> 1,
          ui |-> <<UiMsg("exception", "API Error during stage execution: " \o outcome.err)>>]
    ELSE [ret |-> outcome.text, escaped |-> FALSE, calls |-> 1, ui |-> <<>>]

(***************************************************************************)
(* The inputs: the uploaded files and what the provider answers.           *)
(***************************************************************************)
UploadedFiles ==
    { [name |-> "q3.pdf",   type |-> "application/pdf", data |-> "%PDF-1.7 Revenue 100 80"],
      [name |-> "q3.txt",   type |-> "text/plain",
       data |-> "Revenue: $100M current, $80M previous"],
      [name |-> "notes.md", type |-> "text/markdown",   data |-> "# Q3\nRevenue 100"] }

\* transport, authentication, quota and model errors of the provider
ProviderErrors ==
    { "503 UNAVAILABLE. connection reset",
      "401 UNAUTHENTICATED. API key not valid",
      "429 RESOURCE_EXHAUSTED. quota exceeded",
      "404 NOT_FOUND. models/gemini-2.5-pro is not found" }

MetricsCompact ==
       "{\"revenue_current_period\":100,\"revenue_previous_period\":80,\"net_income"
    \o "_current_period\":12.5,\"net_income_previous_period\":10,\"gross_margin_pe"
    \o "rcentage\":0.40,\"operating_expense_total\":30,\"cash_from_operations\":1e2"
    \o ",\"total_debt\":50,\"cash_and_equivalents\":-0,\"management_summary\":\"Reven"
    \o "ue grew 25%.\",\"risk_factors\":[\"FX\",\"Rates \\/ credit\"],\"future_outlook_"
    \o "statement\":\"We expect \\\"steady\\\" growth.\"}"

MetricsCanonical ==
       "{\n"
    \o "  \"revenue_current_period\": 100,\n"
    \o "  \"revenue_previous_period\": 80,\n"
    \o "  \"net_income_current_period\": 12.5,\n"
    \o "  \"net_income_previous_period\": 10,\n"
    \o "  \"gross_margin_percentage\": 0.4,\n"
    \o "  \"operating_expense_total\": 30,\n"
    \o "  \"cash_from_operations\": 100.0,\n"
    \o "  \"total_debt\": 50,\n"
    \o "  \"cash_and_equivalents\": 0,\n"
    \o "  \"management_summary\": \"Revenue grew 25%.\",\n"
    \o "  \"risk_factors\": [\n"
    \o "    \"FX\",\n"
    \o "    \"Rates / credit\"\n"
    \o "  ],\n"
    \o "  \"future_outlook_statement\": \"We expect \\\"steady\\\" growth.\"\n"
    \o "}"

MetricsWrongType ==
       "{\"revenue_current_period\":\"N/A\",\"revenue_previous_period\":80,\"net_inco"
    \o "me_current_period\":12.5,\"net_income_previous_period\":10,\"gross_margin_"
    \o "percentage\":0.40,\"operating_expense_total\":30,\"cash_from_operations\":1"
    \o "e2,\"total_debt\":50,\"cash_and_equivalents\":-0,\"management_summary\":\"Rev"
    \o "enue grew 25%.\",\"risk_factors\":[\"FX\",\"Rates \\/ credit\"],\"future_outloo"
    \o "k_statement\":\"We expect \\\"steady\\\" growth.\"}"

\* every field, with spaces, exponents, escapes, a repeated key and one more key
MetricsLoose ==
       "{ \"revenue_current_period\" : 1.5e3, \"revenue_previous_period\": 125"
    \o "0.75,\n \"net_income_current_period\": -3.0E+2, \"net_income_previous_"
    \o "period\": 1.5e-7, \"gross_margin_percentage\": 0.40, \"operating_expen"
    \o "se_total\": 2E16, \"cash_from_operations\": 0.0001, \"total_debt\": 1e"
    \o "16, \"cash_and_equivalents\": -0.0, \"management_summary\": \"Caf\\u00"
    \o "65 \\/ \\\"Q3\\\"\\tup\", \"risk_factors\": [], \"future_outlook_state"
    \o "ment\": \"\", \"total_debt\": 50, \"note\": null }"

\* Stage 1 answers that json.loads accepts
Stage1JsonTexts ==
    { MetricsCompact, MetricsCanonical, MetricsWrongType, MetricsLoose,
      "{\"revenue_current_period\": 100}",
      "{\"gross_margin_percentage\": NaN, \"total_debt\": 1.5e-7, \"total_debt\": 2E16}",
      "\n{}\n",
      "[]",
      "[1.50, \"\\u0041\\n\", null, true, {\"k\": [-0.0]}]",
      "0",
      "null",
      "\"N/A\"" }

\* Stage 1 answers that json.loads rejects
Stage1BadTexts ==
    { " ",
      "Here is the JSON: {}",
      "{\"revenue_current_period\": 100,",
      "{\"revenue_current_period\": 100,}",
      "{'revenue_current_period': 100}",
      "{\"revenue_current_period\": 0100}" }

Stage1Outcomes ==
    {Raises(e) : e \in ProviderErrors} \cup {Returns(None), Returns(Some(""))}
        \cup {Returns(Some(s)) : s \in Stage1JsonTexts \cup Stage1BadTexts}

\* Stage 2 answers: up to MaxSegments pieces, each a marker or plain text
MaxSegments == 3
Segments == {OpenMarker, CloseMarker, "25%\n"}
RECURSIVE Concat(_)
Concat(pieces) == IF pieces = <<>> THEN "" ELSE Head(pieces) \o Concat(Tail(pieces))
Stage2Texts ==
    UNION { {Concat(pieces) : pieces \in [1..n -> Segments]} : n \in 1..MaxSegments }

Stage2Outcomes ==
    {Raises(e) : e \in ProviderErrors} \cup {Returns(None), Returns(Some(""))}
        \cup {Returns(Some(s)) : s \in Stage2Texts}

Stage3Texts == { "# Executive Summary\nRevenue grew 25%.\n", " " }
Stage3Outcomes ==
    {Raises(e) : e \in ProviderErrors} \cup {Returns(None), Returns(Some(""))}
        \cup {Returns(Some(s)) : s \in Stage3Texts}

(***************************************************************************)
(* The state of one session: the position of run_financial_analysis_chain, *)
(* its locals, the calls of run_gemini_stage and what the page shows.      *)
(***************************************************************************)
VARIABLES
    pc,                    \* the chain's position
    uploaded_file,         \* the file of st.file_uploader
    file_mime_type,        \* the mime type the chain was called with
    file_part,             \* the part made of the file's bytes
    requests,              \* the calls of run_gemini_stage so far, in order
    responses,             \* what the provider did on each of them, in order
    provider_calls,        \* provider calls made, per stage
    json_output,           \* Stage 1's return value
    extracted_data_json,   \* the re-serialized Stage 1 data
    stage2_output,         \* Stage 2's return value
    intermediate_analysis, \* the part of stage2_output given to Stage 3
    final_report_markdown, \* Stage 3's return value
    report_data,           \* what the chain returned
    ui,                    \* the st.* messages of this run, in order
    run,                   \* how many times the button was pressed
    prev                   \* the last earlier run that reached Stage 3

vars == <<pc, uploaded_file, file_mime_type, file_part, requests, responses, provider_calls, json_output,
          extracted_data_json, stage2_output, intermediate_analysis,
          final_report_markdown, report_data, ui, run, prev>>

Stages == 1..3

NotReturned  == [returned |-> FALSE, none |-> TRUE, report |-> "", data |-> "", stage2 |-> ""]
ReturnedNone == [returned |-> TRUE,  none |-> TRUE, report |-> "", data |-> "", stage2 |-> ""]
\* return final_report_markdown, extracted_data_json, stage2_output
ReturnedTriple(final, data, raw2) ==
    [returned |-> TRUE, none |-> FALSE, report |-> final, data |-> data, stage2 |-> raw2]

\* file_part before the chain has read the file
NoFilePart == [kind |-> "none", text |-> "", data |-> "", mime_type |-> ""]

NoPrev == [valid |-> FALSE, file |-> "", data |-> "", analysis |-> "", prompt |-> ""]

\* 'application/pdf' for a PDF, 'text/plain' for anything else
MimeTypeOf(type) == IF type = "application/pdf" THEN "application/pdf" ELSE "text/plain"

Request(stage, prompt, contents, schema) ==
    [stage |-> stage, parts |-> Parts(prompt, contents), response_schema |-> schema]

Init ==
    /\ pc = "START"
    /\ uploaded_file \in UploadedFiles
    /\ file_mime_type = ""
    /\ file_part = NoFilePart
    /\ requests = <<>>
    /\ responses = <<>>
    /\ provider_calls = [k \in Stages |-> 0]
    /\ json_output = None
    /\ extracted_data_json = None
    /\ stage2_output = None
    /\ intermediate_analysis = None
    /\ final_report_markdown = None
    /\ report_data = NotReturned
    /\ ui = <<>>
    /\ run = 1
    /\ prev = NoPrev

(***************************************************************************)
(* run_financial_analysis_chain, stage by stage.                           *)
(***************************************************************************)
\* Stage1Loaded without st.code: the error is shown, the raw text is not.  C2
\* is checked against it.
Stage1LoadedNoRaw(ret, loaded) ==
    IF ~loaded.ok
    THEN [pc |-> "FAILED", data |-> None,
          ui |-> << UiMsg("error", "Stage 1 failed: Gemini did not return valid JSON. Check document structure.") >>]
    ELSE [pc |-> "STAGE1_DONE", data |-> Some(JsonDumps(loaded.v)),
          ui |-> << UiMsg("success", "Stage 1 Complete: Structured Data Extracted.") >>]

\* After Stage 1 returned: "if not json_output: return None", then the
\* try/except around json.dumps(json.loads(json_output), indent=2).
Stage1Loaded(ret, loaded) ==
    IF ~loaded.ok
    THEN [pc |-> "FAILED", data |-> None,
          ui |-> << UiMsg("error", "Stage 1 failed: Gemini did not return valid JSON. Check document structure."),
                    UiMsg("code", ret.text) >>]
    ELSE [pc |-> "STAGE1_DONE", data |-> Some(JsonDumps(loaded.v)),
          ui |-> << UiMsg("success", "Stage 1 Complete: Structured Data Extracted.") >>]
AfterStage1(ret) ==
    IF ~Truthy(ret) THEN [pc |-> "FAILED", data |-> None, ui |-> <<>>]
    ELSE Stage1Loaded(ret, JsonLoads(ret.text))

\* After Stage 2 returned: "if not stage2_output: return None", then the search
\* for the marked block.
AfterStage2(ret) ==
    IF ~Truthy(ret) THEN [pc |-> "FAILED", analysis |-> None, ui |-> <<>>]
    ELSE [pc |-> "STAGE2_DONE", analysis |-> Some(IntermediateAnalysis(ret.text)),
          ui |-> << UiMsg("success", "Stage 2 Complete: Analysis Ready.") >>]

\* After Stage 3 returned: "if not final_report_markdown: return None", then
\* the success message, which starts with the check mark U+2705 and a space.
AfterStage3(ret) ==
    IF ~Truthy(ret) THEN [pc |-> "FAILED", ui |-> <<>>]
    ELSE [pc |-> "STAGE3_DONE",
          ui |-> << UiMsg("success", "\\u2705 Analysis Complete! Report Generated.") >>]

\* ReturnValue with the extracted analysis in the place of the raw Stage 2
\* output.  C6 is checked against it.
ReturnValueExtracted(final, data, raw2, analysis) == ReturnedTriple(final, data, analysis)

\* The value the chain returns at its last line.
ReturnValue(final, data, raw2, analysis) == ReturnedTriple(final, data, raw2)

\* An exception that leaves run_gemini_stage leaves the chain too.
Crash(k, r, outcome) ==
    /\ pc' = "CRASHED"
    /\ responses' = Append(responses, outcome)
    /\ ui' = ui \o r.ui
    /\ provider_calls' = [provider_calls EXCEPT ![k] = @ + r.calls]
    /\ UNCHANGED <<uploaded_file, file_mime_type, file_part, requests, json_output,
                   extracted_data_json, stage2_output, intermediate_analysis,
                   final_report_markdown, report_data, run, prev>>

\* The button is pressed: the mime type is chosen, the chain reads the file and
\* makes the file part, and the Stage 1 spinner is shown.  The chain then waits
\* in time.sleep(0.5), with no call of run_gemini_stage made yet.
Spinner1 ==
    /\ pc = "START"
    /\ file_mime_type' = MimeTypeOf(uploaded_file.type)
    /\ file_part' = BytesPart(uploaded_file.data, file_mime_type')
    /\ ui' = Append(ui, UiMsg("spinner",
                  "Stage 1: Analyzing document and extracting structured data..."))
    /\ pc' = "STAGE1_SPINNER"
    /\ UNCHANGED <<uploaded_file, requests, responses, provider_calls, json_output,
                   extracted_data_json, stage2_output, intermediate_analysis,
                   final_report_markdown, report_data, run, prev>>

\* The wait is over: Stage 1 is called with the file part and the response
\* schema.
Invoke1 ==
    /\ pc = "STAGE1_SPINNER"
    /\ requests' = Append(requests,
           Request(1, STAGE_1_PROMPT, OnePart(file_part), TRUE))
    /\ pc' = "STAGE1_RUNNING"
    /\ UNCHANGED <<uploaded_file, file_mime_type, file_part, responses, provider_calls,
                   json_output, extracted_data_json, stage2_output,
                   intermediate_analysis, final_report_markdown, report_data, ui,
                   run, prev>>

Stage1Returned(outcome, r, a) ==
    IF r.escaped THEN Crash(1, r, outcome)
    ELSE /\ json_output' = r.ret
         /\ responses' = Append(responses, outcome)
         /\ extracted_data_json' = a.data
         /\ ui' = ui \o r.ui \o a.ui
         /\ pc' = a.pc
         /\ report_data' = IF a.pc = "FAILED" THEN ReturnedNone ELSE report_data
         /\ provider_calls' = [provider_calls EXCEPT ![1] = @ + r.calls]
         /\ UNCHANGED <<uploaded_file, file_mime_type, file_part, requests, stage2_output,
                        intermediate_analysis, final_report_markdown, run, prev>>

Respond1(outcomes) ==
    /\ pc = "STAGE1_RUNNING"
    /\ \E outcome \in outcomes :
           Stage1Returned(outcome, RunGeminiStage(outcome),
                          AfterStage1(RunGeminiStage(outcome).ret))

\* The Stage 2 spinner is shown; the chain then waits in time.sleep(0.5).
Spinner2 ==
    /\ pc = "STAGE1_DONE"
    /\ ui' = Append(ui, UiMsg("spinner",
                  "Stage 2: Performing Chain-of-Thought calculations and analysis..."))
    /\ pc' = "STAGE2_SPINNER"
    /\ UNCHANGED <<uploaded_file, file_mime_type, file_part, requests, responses,
                   provider_calls, json_output, extracted_data_json, stage2_output,
                   intermediate_analysis, final_report_markdown, report_data, run, prev>>

\* The wait is over: the template is formatted and Stage 2 is called with it
\* and an empty contents list.
Invoke2 ==
    /\ pc = "STAGE2_SPINNER"
    /\ requests' = Append(requests,
           Request(2, Stage2FullPrompt(extracted_data_json.text), ListOf(<<>>), FALSE))
    /\ pc' = "STAGE2_RUNNING"
    /\ UNCHANGED <<uploaded_file, file_mime_type, file_part, responses, provider_calls,
                   json_output, extracted_data_json, stage2_output,
                   intermediate_analysis, final_report_markdown, report_data, ui,
                   run, prev>>

Stage2Returned(outcome, r, a) ==
    IF r.escaped THEN Crash(2, r, outcome)
    ELSE /\ stage2_output' = r.ret
         /\ responses' = Append(responses, outcome)
         /\ intermediate_analysis' = a.analysis
         /\ ui' = ui \o r.ui \o a.ui
         /\ pc' = a.pc
         /\ report_data' = IF a.pc = "FAILED" THEN ReturnedNone ELSE report_data
         /\ provider_calls' = [provider_calls EXCEPT ![2] = @ + r.calls]
         /\ UNCHANGED <<uploaded_file, file_mime_type, file_part, requests, json_output,
                        extracted_data_json, final_report_markdown, run, prev>>

Respond2(outcomes) ==
    /\ pc = "STAGE2_RUNNING"
    /\ \E outcome \in outcomes :
           Stage2Returned(outcome, RunGeminiStage(outcome),
                          AfterStage2(RunGeminiStage(outcome).ret))

\* The Stage 3 spinner is shown; the chain then waits in time.sleep(0.5).
Spinner3 ==
    /\ pc = "STAGE2_DONE"
    /\ ui' = Append(ui, UiMsg("spinner", "Stage 3: Generating executive report..."))
    /\ pc' = "STAGE3_SPINNER"
    /\ UNCHANGED <<uploaded_file, file_mime_type, file_part, requests, responses,
                   provider_calls, json_output, extracted_data_json, stage2_output,
                   intermediate_analysis, final_report_markdown, report_data, run, prev>>

\* The wait is over: the template is formatted and Stage 3 is called with it
\* and an empty contents list.
Invoke3 ==
    /\ pc = "STAGE3_SPINNER"
    /\ requests' = Append(requests,
           Request(3, Stage3FullPrompt(extracted_data_json.text, intermediate_analysis.text),
                   ListOf(<<>>), FALSE))
    /\ pc' = "STAGE3_RUNNING"
    /\ UNCHANGED <<uploaded_file, file_mime_type, file_part, responses, provider_calls,
                   json_output, extracted_data_json, stage2_output,
                   intermediate_analysis, final_report_markdown, report_data, ui,
                   run, prev>>

Stage3Returned(outcome, r, a) ==
    IF r.escaped THEN Crash(3, r, outcome)
    ELSE /\ final_report_markdown' = r.ret
         /\ responses' = Append(responses, outcome)
         /\ ui' = ui \o r.ui \o a.ui
         /\ pc' = a.pc
         /\ report_data' = IF a.pc = "FAILED" THEN ReturnedNone ELSE report_data
         /\ provider_calls' = [provider_calls EXCEPT ![3] = @ + r.calls]
         /\ UNCHANGED <<uploaded_file, file_mime_type, file_part, requests, json_output,
                        extracted_data_json, stage2_output, intermediate_analysis,
                        run, prev>>

Respond3(outcomes) ==
    /\ pc = "STAGE3_RUNNING"
    /\ \E outcome \in outcomes :
           Stage3Returned(outcome, RunGeminiStage(outcome),
                          AfterStage3(RunGeminiStage(outcome).ret))

\* return final_report_markdown, extracted_data_json, stage2_output
Return ==
    /\ pc = "STAGE3_DONE"
    /\ report_data' = ReturnValue(final_report_markdown.text, extracted_data_json.text,
                                  stage2_output.text, intermediate_analysis.text)
    /\ pc' = "COMPLETE"
    /\ UNCHANGED <<uploaded_file, file_mime_type, file_part, requests, responses, provider_calls,
                   json_output, extracted_data_json, stage2_output,
                   intermediate_analysis, final_report_markdown, ui, run, prev>>

Next ==
    \/ Spinner1
    \/ Invoke1
    \/ Respond1(Stage1Outcomes)
    \/ Spinner2
    \/ Invoke2
    \/ Respond2(Stage2Outcomes)
    \/ Spinner3
    \/ Invoke3
    \/ Respond3(Stage3Outcomes)
    \/ Return

Spec == Init /\ [][Next]_vars

(***************************************************************************)
(* Several runs in one session: the script runs again from the top each    *)
(* time the button is pressed, with the file then in the uploader.         *)
(***************************************************************************)
\* how many times the button is pressed in a session
MaxRuns == 2

\* The provider's answers in a session of several runs: an error, answers that
\* differ as texts and re-serialize to one text, answers with one block in
\* different surroundings, and answers that end the chain.
Stage1OutcomesFew ==
    { Raises("503 UNAVAILABLE. connection reset"),
      Returns(Some(MetricsCompact)), Returns(Some(MetricsCanonical)),
      Returns(Some("{\"revenue_current_period\": 100}")) }

Stage2OutcomesFew ==
    { Returns(None),
      Returns(Some(OpenMarker \o "25%\n" \o CloseMarker)),
      Returns(Some("25%\n" \o OpenMarker \o "25%\n" \o CloseMarker)),
      Returns(Some(OpenMarker \o "25%\n" \o CloseMarker \o "25%\n")),
      Returns(Some("25%\n")) }

Stage3OutcomesFew ==
    { Returns(Some("")), Returns(Some("# Executive Summary\nRevenue grew 25%.\n")) }

\* The button is pressed again, after a run has ended or while one waits at a
\* spinner or for the provider's answer (that run is given up): the script
\* starts from the top with fresh locals and a page without the old messages,
\* and the uploader gives it the file now chosen.  prev keeps, of the last run
\* that called Stage 3, the file, the two artifacts and the Stage 3 prompt.
NewRun ==
    /\ pc # "START"
    /\ run < MaxRuns
    /\ run' = run + 1
    /\ prev' = IF Len(requests) = 3
               THEN [valid |-> TRUE, file |-> uploaded_file.name,
                     data |-> extracted_data_json.text,
                     analysis |-> intermediate_analysis.text,
                     prompt |-> requests[3].parts[1].text]
               ELSE prev
    /\ uploaded_file' \in UploadedFiles
    /\ pc' = "START"
    /\ file_mime_type' = ""
    /\ file_part' = NoFilePart
    /\ requests' = <<>>
    /\ responses' = <<>>
    /\ provider_calls' = [k \in Stages |-> 0]
    /\ json_output' = None
    /\ extracted_data_json' = None
    /\ stage2_output' = None
    /\ intermediate_analysis' = None
    /\ final_report_markdown' = None
    /\ report_data' = NotReturned
    /\ ui' = <<>>

NextRuns ==
    \/ Spinner1
    \/ Invoke1
    \/ Respond1(Stage1OutcomesFew)
    \/ Spinner2
    \/ Invoke2
    \/ Respond2(Stage2OutcomesFew)
    \/ Spinner3
    \/ Invoke3
    \/ Respond3(Stage3OutcomesFew)
    \/ Return
    \/ NewRun

SpecRuns == Init /\ [][NextRuns]_vars

(***************************************************************************)
(* The properties.  They read the state alone: what was asked of the       *)
(* provider (requests), what it did (responses), what the chain kept, what *)
(* the page shows and what the chain returned.                             *)
(***************************************************************************)
\* an output a stage can go on with: a text, and not the empty one
NonEmpty(x) == x.none = FALSE /\ Len(x.text) > 0
\* the page shows this message
UiHas(fn, text) == \E i \in 1..Len(ui) : ui[i].fn = fn /\ ui[i].text = text
\* the prompt of the k-th call: the text of its last part
PromptOf(k) == requests[k].parts[Len(requests[k].parts)].text
\* what the chain keeps of stage k's call
OutputOf(k) == IF k = 1 THEN json_output
               ELSE IF k = 2 THEN stage2_output
               ELSE final_report_markdown
\* the provider answered the k-th call with a text that is not empty
Answered(k) ==
    Len(responses) >= k /\ ~responses[k].raised /\ NonEmpty(responses[k].text)
\* where the one replacement field of a template starts
FieldAt(template, field) ==
    CHOOSE i \in 1..Len(template) : StartsAt(template, i, field)
\* the texts of the Stage 2 and Stage 3 templates before and after their field
Stage2Before ==
    SubSeq(STAGE_2_PROMPT_TEMPLATE, 1,
           FieldAt(STAGE_2_PROMPT_TEMPLATE, "{extracted_data_placeholder}") - 1)
Stage3Before ==
    SubSeq(STAGE_3_PROMPT_TEMPLATE, 1,
           FieldAt(STAGE_3_PROMPT_TEMPLATE, "{full_analysis_data_placeholder}") - 1)
Stage3After ==
    SubSeq(STAGE_3_PROMPT_TEMPLATE,
           FieldAt(STAGE_3_PROMPT_TEMPLATE, "{full_analysis_data_placeholder}")
               + Len("{full_analysis_data_placeholder}"),
           Len(STAGE_3_PROMPT_TEMPLATE))
\* the text of length n that prompt holds from position i (1-based), "" if it
\* does not reach that far
Embedded(prompt, i, n) ==
    IF i >= 1 /\ i + n - 1 <= Len(prompt) THEN SubSeq(prompt, i, i + n - 1) ELSE ""
\* the Stage 3 prompt ends with the text art and then the rest of the template
EndsWithArtifact(prompt, art) ==
    Embedded(prompt, Len(prompt) - Len(Stage3After) - Len(art) + 1, Len(art)) = art
\* a ends with m
EndsWith(a, m) == Len(a) >= Len(m) /\ SubSeq(a, Len(a) - Len(m) + 1, Len(a)) = m

\* C1, in every state: the calls made so far are Stage 1, Stage 2, Stage 3 in
\* this order, each at most once with at most one provider call; Stage 2 was
\* called only after Stage 1 returned a non-empty text that parsed, Stage 3
\* only after Stage 2 returned a non-empty text; while a stage's spinner is
\* shown and its call is not yet made, only the stages before it were called;
\* a failed chain has returned
\* None and nothing but a complete chain returns a result; a complete chain
\* has called each stage exactly once.
C1_Calls ==
    /\ Len(requests) <= 3
    /\ \A i \in 1..Len(requests) : requests[i].stage = i
    /\ \A k \in Stages : provider_calls[k] <= 1
    /\ \A k \in Stages : provider_calls[k] = 1 => Len(requests) >= k
    /\ Len(requests) >= 2 =>
           /\ NonEmpty(json_output)
           /\ json_output.text \notin Stage1BadTexts
           /\ ~extracted_data_json.none
    /\ Len(requests) >= 3 => NonEmpty(stage2_output)
    /\ \A k \in Stages :
           pc = (<<"STAGE1_SPINNER", "STAGE2_SPINNER", "STAGE3_SPINNER">>)[k]
               => Len(requests) = k - 1 /\ ui[Len(ui)].fn = "spinner"
    /\ pc = "FAILED" => report_data.returned /\ report_data.none
    /\ pc # "COMPLETE" => report_data.none
    /\ pc = "COMPLETE" =>
           /\ Len(requests) = 3
           /\ \A k \in Stages : provider_calls[k] = 1

\* C1, in every step: FAILED is absorbing; a failed chain calls no stage and
\* what it returned stays None.
C1_FailedStays ==
    pc = "FAILED" => pc' = "FAILED" /\ requests' = requests /\ report_data' = report_data

\* C1: the stages run in the order 1, 2, 3, each at most once and each after
\* the one before it gave a usable output; FAILED is absorbing and returns
\* None; a run that reaches COMPLETE called each stage exactly once.
C1_StagesInOrder == []C1_Calls /\ [][C1_FailedStays]_vars

\* C1's case: a complete run, three calls in order, one provider call each
C1_Witness ==
    /\ pc = "COMPLETE"
    /\ Len(requests) = 3
    /\ \A k \in Stages : requests[k].stage = k /\ provider_calls[k] = 1

\* C2: if the provider's Stage 1 answer is no text (None or the empty text),
\* or a text json.loads rejects, the chain has returned None and Stage 2 and
\* Stage 3 were never called; a rejected text is shown by st.code.
C2_Stage1Unusable ==
    ( /\ Len(responses) >= 1
      /\ ~responses[1].raised
      /\ \/ ~NonEmpty(responses[1].text)
         \/ responses[1].text.text \in Stage1BadTexts )
    => /\ pc = "FAILED"
       /\ report_data.returned /\ report_data.none
       /\ Len(requests) = 1
       /\ provider_calls[2] = 0 /\ provider_calls[3] = 0
       /\ NonEmpty(responses[1].text) => UiHas("code", responses[1].text.text)

\* C2's case: Stage 1 answered with a truncated object, the chain failed and
\* shows the text
C2_Witness ==
    /\ pc = "FAILED"
    /\ responses = << Returns(Some("{\"revenue_current_period\": 100,")) >>
    /\ UiHas("code", "{\"revenue_current_period\": 100,")
    /\ Len(requests) = 1

\* the open marker occurs in s and the close marker occurs after it
OrderedMarkers(s) ==
    \E i \in 1..Len(s) :
        /\ StartsAt(s, i, "<Chain_of_Thought>")
        /\ \E j \in (i + Len("<Chain_of_Thought>"))..Len(s) :
               StartsAt(s, j, "</Intermediate_Analysis>")

\* what C3 says of a raw Stage 2 output and the artifact taken from it, as the
\* spec words it (proper = TRUE: the artifact is not the whole output) and
\* without that word
C3_Holds(raw, art, proper) ==
    IF OrderedMarkers(raw)
    THEN /\ Contains(raw, art)
         /\ StartsAt(art, 1, "<Chain_of_Thought>")
         /\ EndsWith(art, "</Intermediate_Analysis>")
         /\ proper => art # raw
    ELSE art = raw

\* C3 as amended: for a non-empty Stage 2 output with the open marker and the
\* close marker after it, the artifact is a contiguous part of the output
\* (the whole of it when the output is exactly the block) that starts with
\* the open marker and ends with the close marker; otherwise the artifact is
\* the whole output; in both cases the chain goes on to Stage 3.
C3_Extraction ==
    Answered(2) =>
        /\ ~intermediate_analysis.none
        /\ C3_Holds(responses[2].text.text, intermediate_analysis.text, FALSE)
        /\ Len(responses) = 2 => pc \in {"STAGE2_DONE", "STAGE3_SPINNER", "STAGE3_RUNNING"}
        /\ Len(requests) >= 3 => EndsWithArtifact(PromptOf(3), intermediate_analysis.text)

\* C3 as the spec words it: with both markers in order the artifact is a
\* strict substring of the raw output.
C3_StrictSubstring ==
    Answered(2) =>
        /\ ~intermediate_analysis.none
        /\ C3_Holds(responses[2].text.text, intermediate_analysis.text, TRUE)

\* C3's case: text before the block, the block taken out of it, Stage 3 called
C3_Witness ==
    /\ Answered(2)
    /\ OrderedMarkers(responses[2].text.text)
    /\ intermediate_analysis.text # responses[2].text.text
    /\ pc = "STAGE3_RUNNING"

\* the fields of FinancialMetrics: nine numbers, two texts, one list of texts
NumberFields ==
    { "revenue_current_period", "revenue_previous_period",
      "net_income_current_period", "net_income_previous_period",
      "gross_margin_percentage", "operating_expense_total",
      "cash_from_operations", "total_debt", "cash_and_equivalents" }
TextFields == { "management_summary", "future_outlook_statement" }
ListFields == { "risk_factors" }
RequiredFields == NumberFields \cup TextFields \cup ListFields

\* the keys of a decoded object (none for any other value)
KeysOf(v) == IF v.t = "dict" THEN {v.items[i].k : i \in 1..Len(v.items)} ELSE {}
\* every entry of v under a key of names has a value for which ok(value) holds
FieldsAre(v, names, ok(_)) ==
    \A i \in 1..Len(v.items) : v.items[i].k \in names => ok(v.items[i].v)
IsNumber(x) == x.t \in {"int", "float"}
IsText(x) == x.t = "str"
IsTextList(x) == x.t = "list" /\ \A i \in 1..Len(x.items) : x.items[i].t = "str"
\* the decoded value is an object that has every field, each of its type
MatchesFieldSet(v) ==
    /\ v.t = "dict"
    /\ RequiredFields \subseteq KeysOf(v)
    /\ FieldsAre(v, NumberFields, IsNumber)
    /\ FieldsAre(v, TextFields, IsText)
    /\ FieldsAre(v, ListFields, IsTextList)

\* C4: a Stage 1 answer that is well-formed JSON but does not match the
\* FinancialMetrics field set (a number field holding a text, a field missing,
\* a value that is no object) fails the chain at Stage 1: the raw text is
\* shown, None is returned and Stage 2 is never called.
C4_FieldSetEnforced ==
    ( /\ Answered(1)
      /\ JsonLoads(responses[1].text.text).ok
      /\ ~MatchesFieldSet(JsonLoads(responses[1].text.text).v) )
    => /\ pc = "FAILED"
       /\ UiHas("code", responses[1].text.text)
       /\ report_data.returned /\ report_data.none
       /\ Len(requests) = 1

\* C5: for every stage, when the provider call raises, no exception leaves
\* run_gemini_stage: it made one provider call, returned None, and the chain
\* has failed there with None, keeping no output of that stage and calling no
\* later stage.
C5_ProviderErrorCaught ==
    /\ pc # "CRASHED"
    /\ \A k \in 1..Len(responses) :
           responses[k].raised =>
               /\ k = Len(responses) /\ k = Len(requests)
               /\ provider_calls[k] = 1
               /\ \A j \in Stages : j > k => provider_calls[j] = 0
               /\ OutputOf(k) = None
               /\ k = 1 => extracted_data_json = None
               /\ k = 2 => intermediate_analysis = None
               /\ pc = "FAILED"
               /\ report_data.returned /\ report_data.none

\* C5's case: Stage 1 went through, the provider raised in Stage 2, the chain
\* failed after one provider call for it
C5_Witness ==
    /\ Len(responses) = 2
    /\ responses[2].raised
    /\ responses[2].err = "429 RESOURCE_EXHAUSTED. quota exceeded"
    /\ pc = "FAILED"
    /\ provider_calls = <<1, 1, 0>>

\* C6: a complete chain has returned the triple (the Stage 3 answer, the
\* re-serialized Stage 1 data, the raw Stage 2 answer); its second element is
\* the text the Stage 2 and Stage 3 prompts hold, its third is the whole
\* Stage 2 answer and not the extracted block that the Stage 3 prompt holds;
\* and a triple is returned only by a complete chain, whose three stages all
\* gave a non-empty text.
C6_ReturnsTriple ==
    /\ pc = "COMPLETE" =>
           /\ report_data.returned /\ ~report_data.none
           /\ report_data.report = responses[3].text.text
           /\ report_data.data = extracted_data_json.text
           /\ report_data.stage2 = responses[2].text.text
           /\ Embedded(PromptOf(2), Len(Stage2Before) + 1, Len(report_data.data))
                  = report_data.data
           /\ Embedded(PromptOf(3), Len(Stage3Before) + Len("STAGE 1 DATA:\n") + 1,
                       Len(report_data.data)) = report_data.data
           /\ EndsWithArtifact(PromptOf(3), intermediate_analysis.text)
    /\ ~report_data.none =>
           /\ pc = "COMPLETE"
           /\ \A k \in Stages : Answered(k) /\ NonEmpty(OutputOf(k))

\* C6's case: a complete chain whose Stage 2 answer is more than the block
\* extracted from it
C6_Witness ==
    /\ pc = "COMPLETE"
    /\ ~report_data.none
    /\ report_data.stage2 # intermediate_analysis.text
    /\ report_data.data # responses[1].text.text

\* the label of stage k in a message
StageLabel(k) == IF k = 1 THEN "Stage 1" ELSE IF k = 2 THEN "Stage 2" ELSE "Stage 3"
\* a failure message of the page: not a spinner, not a success
IsFailureMsg(m) == m.fn \in {"error", "exception", "warning"}

\* C7: a failed chain shows a failure message that names the stage that
\* failed, and it tells a provider call that raised (an exception message)
\* from a provider answer that was empty or unparseable (an error message).
C7_FailuresLabelled ==
    pc = "FAILED" =>
        \E i \in 1..Len(ui) :
            /\ IsFailureMsg(ui[i])
            /\ Contains(ui[i].text, StageLabel(Len(requests)))
            /\ ui[i].fn = (IF responses[Len(responses)].raised THEN "exception" ELSE "error")

\* the text decodes to an object that has every required field name
HasEveryField(text) ==
    JsonLoads(text).ok /\ RequiredFields \subseteq KeysOf(JsonLoads(text).v)

\* what C8 says of a raw Stage 1 text and the canonical text made from it
C8_Equivalent(raw, canon) ==
    /\ JsonLoads(canon).ok
    /\ KeysOf(JsonLoads(canon).v) = KeysOf(JsonLoads(raw).v)
    /\ JsonLoads(canon).v = JsonLoads(raw).v
    /\ JsonDumps(JsonLoads(canon).v) = canon

\* C8: when Stage 1 has answered with valid JSON that has every required
\* field name, the chain goes on to Stage 2; the canonical text stands
\* verbatim in the Stage 2 prompt; decoding the canonical text gives the field
\* names and values that decoding the raw answer gives; and re-serializing
\* the decoded canonical text gives the canonical text again.  (Read in the
\* states between Stage 1's answer and Stage 2's: nothing changes the two
\* texts after that.)
C8_RoundTrip ==
    ( /\ Len(responses) = 1
      /\ Answered(1)
      /\ HasEveryField(responses[1].text.text) )
    => /\ pc \in {"STAGE1_DONE", "STAGE2_SPINNER", "STAGE2_RUNNING"}
       /\ ~extracted_data_json.none
       /\ C8_Equivalent(responses[1].text.text, extracted_data_json.text)
       /\ pc = "STAGE2_RUNNING" =>
              /\ Len(requests) = 2
              /\ PromptOf(2) = Stage2Before \o extracted_data_json.text
                                   \o SubSeq(STAGE_2_PROMPT_TEMPLATE,
                                             Len(Stage2Before) + 1
                                                 + Len("{extracted_data_placeholder}"),
                                             Len(STAGE_2_PROMPT_TEMPLATE))

\* C8's case: the compact answer with every field, escapes and an exponent,
\* re-serialized into a different text that the Stage 2 prompt holds
C8_Witness ==
    /\ pc = "STAGE2_RUNNING"
    /\ Answered(1)
    /\ responses[1].text.text = MetricsCompact
    /\ HasEveryField(MetricsCompact)
    /\ extracted_data_json.text # MetricsCompact

\* where the open marker first starts in s, and where the close marker starts
\* after it
FirstOpen(s) == SetMin({i \in 1..Len(s) : StartsAt(s, i, "<Chain_of_Thought>")})
ClosesAfter(s, i) ==
    {j \in (i + Len("<Chain_of_Thought>"))..Len(s) : StartsAt(s, j, "</Intermediate_Analysis>")}

\* C9: when the Stage 2 answer has the open marker and more than one close
\* marker after it, the artifact runs from the first open marker to the end
\* of the first close marker after it.
C9_FirstCloseMarker ==
    ( /\ Answered(2)
      /\ OrderedMarkers(responses[2].text.text)
      /\ Cardinality(ClosesAfter(responses[2].text.text,
                                 FirstOpen(responses[2].text.text))) > 1 )
    => intermediate_analysis.text =
           SubSeq(responses[2].text.text,
                  FirstOpen(responses[2].text.text),
                  SetMin(ClosesAfter(responses[2].text.text,
                                     FirstOpen(responses[2].text.text)))
                      + Len("</Intermediate_Analysis>") - 1)

\* the Stage 3 prompt that C10 describes for the two artifacts
C10_Prompt(data, analysis) ==
    Stage3Before \o "STAGE 1 DATA:\n" \o data \o "\n" \o "\n"
        \o "STAGE 2 ANALYSIS:\n" \o analysis \o Stage3After

\* C10: the Stage 3 request is one text part, the Stage 3 template with its
\* field replaced by the Stage 1 artifact under "STAGE 1 DATA:", a blank
\* line, and the extracted Stage 2 artifact under "STAGE 2 ANALYSIS:"; a run
\* whose artifacts equal those of an earlier run of the session sends the
\* prompt that run sent, whatever the files; and the Stage 2 and Stage 3
\* requests hold no file part.
C10_Stage3Prompt ==
    /\ Len(requests) >= 3 =>
           /\ Len(requests[3].parts) = 1
           /\ PromptOf(3) = C10_Prompt(extracted_data_json.text, intermediate_analysis.text)
           /\ ( /\ prev.valid
                /\ prev.data = extracted_data_json.text
                /\ prev.analysis = intermediate_analysis.text )
              => prev.prompt = PromptOf(3)
    /\ \A k \in 2..Len(requests) :
           \A j \in 1..Len(requests[k].parts) :
               /\ requests[k].parts[j].kind = "text"
               /\ requests[k].parts[j].data = ""

\* C10's case: a second run on another file, with other raw answers, whose
\* artifacts are those of the first run, at its Stage 3 call
C10_Witness ==
    /\ run = 2
    /\ prev.valid
    /\ Len(requests) = 3
    /\ prev.file # uploaded_file.name
    /\ prev.data = extracted_data_json.text
    /\ prev.analysis = intermediate_analysis.text
    /\ prev.prompt = PromptOf(3)
    /\ requests[1].parts[1].kind = "bytes"

====
